---- MODULE Spec2Model ----
(***************************************************************************)
(* Model of the task-management assistant: the in-memory task store        *)
(* (tools/task_tools.py) and the Gemini-backed agent that drives it        *)
(* (agents/google_adk_agent.py).                                           *)
(*                                                                         *)
(* Python values are encoded as follows.                                   *)
(*   - Optional[str] fields are strings; None is the reserved string None, *)
(*     which no input string equals.                                       *)
(*   - Optional[Dict] results are sequences: <<>> is None, <<t>> is t.     *)
(*   - Timestamps (isoformat strings of the clock) are the integer clock   *)
(*     value at which they were taken; NoTime is None.                     *)
(*   - A date string "YYYY-MM-DD" of day d is the string DateStr[d].       *)
(*   - Free text (the user's request) is a sequence of one-character       *)
(*     strings, so that lower-casing and substring search are computed.    *)
(***************************************************************************)
EXTENDS Integers, Sequences, FiniteSets, TLC

VARIABLES
    tasks_db,      \* task_tools.tasks_db: the list of task dicts, in store order
    next_id,       \* the value the next next(_task_id_counter) returns
    now,           \* the wall clock, in ticks (TicksPerDay ticks to a day)
    ops,           \* number of store calls / requests made so far
    last,          \* the last call made: its name, arguments and result
    issued,        \* history: the ids returned by create_task, in call order
    completedIds   \* history: ids of tasks updated with status "completed"

vars == <<tasks_db, next_id, now, ops, last, issued, completedIds>>

----------------------------------------------------------------------------
(* Bounds of the model.                                                    *)

MaxOps == 3        \* mutating store calls / requests in one run
MaxClock == 1      \* the clock runs over 0..MaxClock
TicksPerDay == 2   \* tick 0 of a day is midnight, the later ticks are in the day
MaxWords == 2      \* words in a request text given to the classifier
MaxRequests == 3   \* requests the agent processes in one run

----------------------------------------------------------------------------
(* Python value encodings.                                                 *)

None == "<None>"
NoTime == 0 - 1

\* Python truthiness of an Optional[str]: None and "" are falsy.
Truthy(s) == s # None /\ s # ""

\* str.lower() on the strings the model passes around.
str_lower(s) ==
    CASE s = "HIGH" -> "high"
      [] s = "Low" -> "low"
      [] s = "Urgent" -> "urgent"
      [] s = "Completed" -> "completed"
      [] s = "In_Progress" -> "in_progress"
      [] s = "Done" -> "done"
      [] s = "Buy milk" -> "buy milk"
      [] s = "BUY MILK" -> "buy milk"
      [] s = "Call Bob" -> "call bob"
      [] s = "Untitled Task" -> "untitled task"
      [] OTHER -> s

\* Date strings: DateStr[d] is the "%Y-%m-%d" text of day d.
DateStr == [d \in 0 .. 3 |-> CASE d = 0 -> "D0" [] d = 1 -> "D1" [] d = 2 -> "D2" [] OTHER -> "D3"]
DateStrings == {DateStr[d] : d \in 0 .. 3}

\* datetime.strptime(s, "%Y-%m-%d"): <<tick of that day's midnight>>, or <<>>
\* when it raises ValueError.
strptime(s) ==
    IF s \in DateStrings
    THEN <<TicksPerDay * (CHOOSE d \in 0 .. 3 : DateStr[d] = s)>>
    ELSE <<>>

\* timedelta.days of a difference of delta ticks: the floor of delta / day.
timedelta_days(delta) == delta \div TicksPerDay

----------------------------------------------------------------------------
(* tools/task_tools.py                                                     *)

\* TaskTools.get_task: the first task with that id, or None.
get_task(db, task_id) ==
    LET found == SelectSeq(db, LAMBDA t : t.id = task_id)
    IN  IF found = <<>> THEN <<>> ELSE <<Head(found)>>

\* create_task numbering a task by the length of the list.
create_task_reuse_id(db, ctr, t, title, description, priority, due_date) ==
    IF priority = None
    THEN [raised |-> TRUE, db |-> db, ctr |-> ctr, ret |-> <<>>]
    ELSE LET task == [id |-> Len(db) + 1, title |-> title,
                      description |-> description,
                      priority |-> str_lower(priority), due_date |-> due_date,
                      status |-> "pending", created_at |-> t,
                      completed_at |-> NoTime]
         IN  [raised |-> FALSE, db |-> Append(db, task), ctr |-> ctr,
              ret |-> <<task>>]

\* TaskTools.create_task. The dict literal is evaluated in order: the id is
\* drawn from the counter first, then priority.lower() raises AttributeError
\* when priority is None (the agent can pass a JSON null), so the id is used
\* up and nothing is appended.
create_task(db, ctr, t, title, description, priority, due_date) ==
    IF priority = None
    THEN [raised |-> TRUE, db |-> db, ctr |-> ctr + 1, ret |-> <<>>]
    ELSE LET task == [id |-> ctr, title |-> title,
                      description |-> description,
                      priority |-> str_lower(priority), due_date |-> due_date,
                      status |-> "pending", created_at |-> t,
                      completed_at |-> NoTime]
         IN  [raised |-> FALSE, db |-> Append(db, task), ctr |-> ctr + 1,
              ret |-> <<task>>]

\* TaskTools.list_tasks: "if status:" is a truthiness test.
list_tasks(db, status) ==
    IF Truthy(status)
    THEN SelectSeq(db, LAMBDA t : t.status = status)
    ELSE db

\* update_task testing "is not None" where the code tests truthiness.
UpdatedTask_is_not_none(task, t, title, description, priority, status, due_date) ==
    [id |-> task.id,
     title |-> IF title # None THEN title ELSE task.title,
     description |-> IF description # None THEN description ELSE task.description,
     priority |-> IF priority # None THEN str_lower(priority) ELSE task.priority,
     due_date |-> IF due_date # None THEN due_date ELSE task.due_date,
     status |-> IF status # None THEN str_lower(status) ELSE task.status,
     created_at |-> task.created_at,
     completed_at |-> IF status # None /\ str_lower(status) = "completed"
                      THEN t ELSE task.completed_at]

\* update_task clearing completed_at when the status moves away from completed.
UpdatedTask_clears_completed_at(task, t, title, description, priority, status, due_date) ==
    [id |-> task.id,
     title |-> IF Truthy(title) THEN title ELSE task.title,
     description |-> IF Truthy(description) THEN description ELSE task.description,
     priority |-> IF Truthy(priority) THEN str_lower(priority) ELSE task.priority,
     due_date |-> IF Truthy(due_date) THEN due_date ELSE task.due_date,
     status |-> IF Truthy(status) THEN str_lower(status) ELSE task.status,
     created_at |-> task.created_at,
     completed_at |-> IF ~Truthy(status) THEN task.completed_at
                      ELSE IF str_lower(status) = "completed" THEN t ELSE NoTime]

\* The fields update_task writes into the task it found.
UpdatedTask(task, t, title, description, priority, status, due_date) ==
    [id |-> task.id,
     title |-> IF Truthy(title) THEN title ELSE task.title,
     description |-> IF Truthy(description) THEN description ELSE task.description,
     priority |-> IF Truthy(priority) THEN str_lower(priority) ELSE task.priority,
     due_date |-> IF Truthy(due_date) THEN due_date ELSE task.due_date,
     status |-> IF Truthy(status) THEN str_lower(status) ELSE task.status,
     created_at |-> task.created_at,
     completed_at |-> IF Truthy(status) /\ str_lower(status) = "completed"
                      THEN t ELSE task.completed_at]

\* TaskTools.update_task: the task dict found by get_task is mutated in place.
update_task(db, t, task_id, title, description, priority, status, due_date) ==
    LET found == get_task(db, task_id)
    IN  IF found = <<>>
        THEN [db |-> db, ret |-> <<>>]
        ELSE LET new == UpdatedTask(found[1], t, title, description, priority,
                                    status, due_date)
                 first == CHOOSE i \in 1 .. Len(db) :
                              /\ db[i].id = task_id
                              /\ \A j \in 1 .. i - 1 : db[j].id # task_id
             IN  [db |-> [db EXCEPT ![first] = new], ret |-> <<new>>]

\* delete_task keeping the tasks of a greater id where the code keeps the
\* tasks of another id.
delete_task_keeps_greater(db, task_id) ==
    LET kept == SelectSeq(db, LAMBDA t : t.id > task_id)
    IN  [db |-> kept, ret |-> Len(kept) < Len(db)]

\* TaskTools.delete_task: the list is rebuilt without the tasks of that id.
delete_task(db, task_id) ==
    LET kept == SelectSeq(db, LAMBDA t : t.id # task_id)
    IN  [db |-> kept, ret |-> Len(kept) < Len(db)]

----------------------------------------------------------------------------
(* Free text: sequences of one-character strings.                          *)

UpperCase == <<"A", "B", "C", "D", "E", "F", "G", "H", "I", "J", "K", "L", "M",
               "N", "O", "P", "Q", "R", "S", "T", "U", "V", "W", "X", "Y", "Z">>
LowerCase == <<"a", "b", "c", "d", "e", "f", "g", "h", "i", "j", "k", "l", "m",
               "n", "o", "p", "q", "r", "s", "t", "u", "v", "w", "x", "y", "z">>

\* str.lower() of one character, and of free text character by character.
char_lower(c) ==
    IF \E k \in 1 .. 26 : UpperCase[k] = c
    THEN LowerCase[CHOOSE k \in 1 .. 26 : UpperCase[k] = c]
    ELSE c
text_lower(text) == [i \in 1 .. Len(text) |-> char_lower(text[i])]

\* Python's "word in text" on strings: word occurs as a substring of text.
Contains(text, word) ==
    \E i \in 0 .. Len(text) - Len(word) :
        \A j \in 1 .. Len(word) : text[i + j] = word[j]

\* any(word in text for word in words)
AnyIn(text, words) == \E w \in words : Contains(text, w)

\* The trigger keywords of _parse_user_request.
K_duplicate == <<"d", "u", "p", "l", "i", "c", "a", "t", "e">>
K_remove == <<"r", "e", "m", "o", "v", "e">>
K_delete == <<"d", "e", "l", "e", "t", "e">>
K_clean == <<"c", "l", "e", "a", "n">>
K_check == <<"c", "h", "e", "c", "k">>
K_find == <<"f", "i", "n", "d">>
K_create == <<"c", "r", "e", "a", "t", "e">>
K_add == <<"a", "d", "d">>
K_new_task == <<"n", "e", "w", " ", "t", "a", "s", "k">>
K_list == <<"l", "i", "s", "t">>
K_show == <<"s", "h", "o", "w">>
K_get_tasks == <<"g", "e", "t", " ", "t", "a", "s", "k", "s">>
K_tasks == <<"t", "a", "s", "k", "s">>
K_update == <<"u", "p", "d", "a", "t", "e">>
K_change == <<"c", "h", "a", "n", "g", "e">>
K_modify == <<"m", "o", "d", "i", "f", "y">>
K_mark == <<"m", "a", "r", "k">>
K_statistics == <<"s", "t", "a", "t", "i", "s", "t", "i", "c", "s">>
K_stats == <<"s", "t", "a", "t", "s">>
K_summary == <<"s", "u", "m", "m", "a", "r", "y">>
K_overview == <<"o", "v", "e", "r", "v", "i", "e", "w">>

\* Other words users write: capitalised keywords, words that contain a
\* keyword, words that are part of a two-word keyword, and plain words.
W_Remove == <<"R", "e", "m", "o", "v", "e">>
W_DUPLICATE == <<"D", "U", "P", "L", "I", "C", "A", "T", "E">>
W_Add == <<"A", "d", "d">>
W_task == <<"t", "a", "s", "k">>
W_new == <<"n", "e", "w">>
W_get == <<"g", "e", "t">>
W_address == <<"a", "d", "d", "r", "e", "s", "s">>
W_hello == <<"h", "e", "l", "l", "o">>
W_my == <<"m", "y">>

Vocabulary ==
    {K_duplicate, K_remove, K_delete, K_clean, K_check, K_find,
     K_create, K_add, K_list, K_show, K_tasks, K_update,
     K_change, K_modify, K_mark, K_statistics, K_stats, K_summary,
     K_overview, W_Remove, W_DUPLICATE, W_Add, W_task, W_new,
     W_get, W_address, W_hello, W_my}

\* The words of ws joined by single spaces.
RECURSIVE Join(_)
Join(ws) ==
    IF ws = <<>> THEN <<>>
    ELSE IF Len(ws) = 1 THEN ws[1]
    ELSE ws[1] \o <<" ">> \o Join(Tail(ws))

\* Request texts: up to MaxWords words of the vocabulary.
Requests ==
    {Join(ws) : ws \in UNION {[1 .. n -> Vocabulary] : n \in 0 .. MaxWords}}

----------------------------------------------------------------------------
(* agents/google_adk_agent.py: the intent classifier.                      *)

DedupWords == {K_remove, K_delete, K_clean, K_check, K_find}
CreateWords == {K_create, K_add, K_new_task}
ListWords == {K_list, K_show, K_get_tasks, K_tasks}
UpdateWords == {K_update, K_change, K_modify, K_mark}
DeleteWords == {K_delete, K_remove}
StatisticsWords == {K_statistics, K_stats, K_summary, K_overview}

\* _parse_user_request with the duplicate test made the last elif.
_parse_user_request_dedup_last(user_request) ==
    LET request_lower == text_lower(user_request)
    IN  IF AnyIn(request_lower, CreateWords) THEN "create"
        ELSE IF AnyIn(request_lower, ListWords) THEN "list"
        ELSE IF AnyIn(request_lower, UpdateWords) THEN "update"
        ELSE IF AnyIn(request_lower, DeleteWords) THEN "delete"
        ELSE IF AnyIn(request_lower, StatisticsWords) THEN "statistics"
        ELSE IF Contains(request_lower, K_duplicate)
                /\ AnyIn(request_lower, DedupWords) THEN "deduplicate"
        ELSE "general"

\* GoogleADKAgent._parse_user_request: the action it returns.
_parse_user_request(user_request) ==
    LET request_lower == text_lower(user_request)
    IN  IF Contains(request_lower, K_duplicate)
           /\ AnyIn(request_lower, DedupWords) THEN "deduplicate"
        ELSE IF AnyIn(request_lower, CreateWords) THEN "create"
        ELSE IF AnyIn(request_lower, ListWords) THEN "list"
        ELSE IF AnyIn(request_lower, UpdateWords) THEN "update"
        ELSE IF AnyIn(request_lower, DeleteWords) THEN "delete"
        ELSE IF AnyIn(request_lower, StatisticsWords) THEN "statistics"
        ELSE "general"

----------------------------------------------------------------------------
(* tools/task_tools.py: get_statistics.                                    *)

\* get_statistics counting as pending every task that is not completed.
get_statistics_pending_is_rest(db) ==
    [total |-> Len(db),
     pending |-> Len(db) - Len(SelectSeq(db, LAMBDA t : t.status = "completed")),
     in_progress |-> Len(SelectSeq(db, LAMBDA t : t.status = "in_progress")),
     completed |-> Len(SelectSeq(db, LAMBDA t : t.status = "completed")),
     high_priority |-> Len(SelectSeq(db, LAMBDA t : t.priority = "high")),
     medium_priority |-> Len(SelectSeq(db, LAMBDA t : t.priority = "medium")),
     low_priority |-> Len(SelectSeq(db, LAMBDA t : t.priority = "low"))]

\* TaskTools.get_statistics
get_statistics(db) ==
    [total |-> Len(db),
     pending |-> Len(SelectSeq(db, LAMBDA t : t.status = "pending")),
     in_progress |-> Len(SelectSeq(db, LAMBDA t : t.status = "in_progress")),
     completed |-> Len(SelectSeq(db, LAMBDA t : t.status = "completed")),
     high_priority |-> Len(SelectSeq(db, LAMBDA t : t.priority = "high")),
     medium_priority |-> Len(SelectSeq(db, LAMBDA t : t.priority = "medium")),
     low_priority |-> Len(SelectSeq(db, LAMBDA t : t.priority = "low"))]

----------------------------------------------------------------------------
(* agents/google_adk_agent.py: field extraction and the action executor.   *)
(*                                                                         *)
(* The extracted field set is a record over the keys the prompt asks for;  *)
(* a key the JSON object lacks holds Missing, a JSON null holds None.      *)
(* task_id 0 stands for every falsy task_id (key missing, null, 0).        *)
(* A reply of the extraction call is "raise" (the call, its .text or       *)
(* json.loads raises), "nondict" (valid JSON that is no object) or "dict"  *)
(* with the parsed object.                                                 *)

Missing == "<missing>"

\* dict.get(key, default) on the field record.
Get(value, default) == IF value = Missing THEN default ELSE value

NoParams ==
    [title |-> Missing, description |-> Missing, priority |-> Missing,
     status |-> Missing, due_date |-> Missing, task_id |-> 0]

\* GoogleADKAgent._extract_task_info: {} on any exception, else json.loads.
_extract_task_info(reply) ==
    IF reply.kind = "raise"
    THEN [isdict |-> TRUE, fields |-> NoParams]
    ELSE IF reply.kind = "nondict"
    THEN [isdict |-> FALSE, fields |-> NoParams]
    ELSE [isdict |-> TRUE, fields |-> reply.fields]

\* What a step of the executor yields: the store, the counter, the result
\* text (a record naming the message and its data), whether an exception
\* is propagating, the ids create_task returned and the ids update_task
\* completed.
Outcome(db, ctr, text, raised, created, completed) ==
    [db |-> db, ctr |-> ctr, text |-> text, raised |-> raised,
     created |-> created, completed |-> completed]

Raise(db, ctr) == Outcome(db, ctr, [kind |-> "exception"], TRUE, <<>>, {})

\* The escalation test of the create branch: priority becomes "high" when
\* the due date parses and 0 <= (due_dt - now).days < 1.
EscalatedPriority(priority, due_date, t) ==
    IF Truthy(due_date) /\ strptime(due_date) # <<>>
       /\ 0 <= timedelta_days(strptime(due_date)[1] - t)
       /\ timedelta_days(strptime(due_date)[1] - t) < 1
    THEN "high"
    ELSE priority

\* The collaborators the create branch calls between create_task and its
\* return statement, in call order, and the warnings it puts into the result
\* text: the branch calls none and the text has the id, title, priority and
\* status lines only.
CreateNotifications(task) == <<>>
CreateWarnings(task) == <<>>

\* The create branch of _execute_action.
ExecuteCreate(db, ctr, t, f) ==
    LET title == Get(f.title, "Untitled Task")
        description == Get(f.description, "")
        due_date == Get(f.due_date, None)
        priority == EscalatedPriority(Get(f.priority, "medium"), due_date, t)
        r == create_task(db, ctr, t, title, description, priority, due_date)
    IN  IF r.raised
        THEN Raise(r.db, r.ctr)
        ELSE Outcome(r.db, r.ctr,
                     [kind |-> "created", task |-> r.ret[1],
                      notified |-> CreateNotifications(r.ret[1]),
                      warnings |-> CreateWarnings(r.ret[1])],
                     FALSE, <<r.ret[1].id>>, {})

\* The list branch of _execute_action.
ExecuteList(db, ctr, f) ==
    LET tasks == list_tasks(db, Get(f.status, None))
    IN  Outcome(db, ctr,
                IF tasks = <<>> THEN [kind |-> "no_tasks"]
                ELSE [kind |-> "list", tasks |-> tasks],
                FALSE, <<>>, {})

\* "Find task by ID or title" of the update and delete branches:
\* [raised, task]. The title search lower-cases each stored title in store
\* order up to the first match, and raises AttributeError on a stored title
\* that is None.
FindTask(db, f) ==
    LET title == Get(f.title, None)
    IN  IF f.task_id # 0
        THEN [raised |-> FALSE, task |-> get_task(db, f.task_id)]
        ELSE IF Truthy(title)
        THEN LET stops == {i \in 1 .. Len(db) :
                              \/ db[i].title = None
                              \/ str_lower(db[i].title) = str_lower(title)}
                 k == CHOOSE i \in stops : \A j \in stops : i <= j
             IN  IF stops = {} THEN [raised |-> FALSE, task |-> <<>>]
                 ELSE IF db[k].title = None THEN [raised |-> TRUE, task |-> <<>>]
                 ELSE [raised |-> FALSE, task |-> <<db[k]>>]
        ELSE [raised |-> FALSE, task |-> <<>>]

\* The update branch of _execute_action: status, priority and title are
\* passed on to update_task.
ExecuteUpdate(db, ctr, t, f) ==
    LET found == FindTask(db, f)
    IN  IF found.raised THEN Raise(db, ctr)
        ELSE IF found.task = <<>>
        THEN Outcome(db, ctr, [kind |-> "not_found"], FALSE, <<>>, {})
        ELSE LET status == Get(f.status, None)
                 r == update_task(db, t, found.task[1].id, Get(f.title, None),
                                  None, Get(f.priority, None), status, None)
             IN  Outcome(r.db, ctr, [kind |-> "updated", task |-> r.ret[1]],
                         FALSE, <<>>,
                         IF Truthy(status) /\ str_lower(status) = "completed"
                         THEN {found.task[1].id} ELSE {})

\* The delete branch of _execute_action.
ExecuteDelete(db, ctr, f) ==
    LET found == FindTask(db, f)
    IN  IF found.raised THEN Raise(db, ctr)
        ELSE IF found.task = <<>>
        THEN Outcome(db, ctr, [kind |-> "not_found"], FALSE, <<>>, {})
        ELSE Outcome(delete_task(db, found.task[1].id).db, ctr,
                     [kind |-> "deleted", id |-> found.task[1].id],
                     FALSE, <<>>, {})

\* The duplicate-removal run. A duplicates map is a sequence of groups
\* [keep, remove] in the JSON object's key order; an id in it is <<n>> when
\* int() yields n and <<>> when int() raises. The loop state is the store,
\* the removed count, the report lines, whether an exception stopped the
\* loop, and a log of the deletions made (the id removed, the group's keep
\* id, whether a task of the keep id was stored at that moment, and the
\* store as it was at that moment).
LoopState(db, count, report, raised, log) ==
    [db |-> db, count |-> count, report |-> report, raised |-> raised,
     log |-> log]

\* for r_id in remove_ids: ... with keep_task fetched before the loop.
RECURSIVE RemoveLoop(_, _, _, _)
RemoveLoop(st, keep_id, keep_task, remove_ids) ==
    IF remove_ids = <<>> \/ st.raised THEN st
    ELSE LET r_id == Head(remove_ids)
         IN  IF r_id = <<>>
             THEN [st EXCEPT !.raised = TRUE]
             ELSE LET r_task == get_task(st.db, r_id[1])
                  IN  IF r_task # <<>> /\ keep_task # <<>>
                      THEN RemoveLoop(
                               LoopState(delete_task(st.db, r_id[1]).db,
                                         st.count + 1,
                                         Append(st.report,
                                                <<r_task[1].title, keep_task[1].title>>),
                                         FALSE,
                                         Append(st.log,
                                                [removed |-> r_id[1], keep |-> keep_id,
                                                 keep_stored |->
                                                     get_task(st.db, keep_id) # <<>>,
                                                 before |-> st.db])),
                               keep_id, keep_task, Tail(remove_ids))
                      ELSE RemoveLoop(st, keep_id, keep_task, Tail(remove_ids))

\* for keep_id, remove_ids in duplicates_map.items(): ...
RECURSIVE GroupLoop(_, _)
GroupLoop(st, groups) ==
    IF groups = <<>> \/ st.raised THEN st
    ELSE LET g == Head(groups)
         IN  IF g.keep = <<>>
             THEN [st EXCEPT !.raised = TRUE]
             ELSE GroupLoop(RemoveLoop(st, g.keep[1], get_task(st.db, g.keep[1]),
                                       g.remove),
                            Tail(groups))

\* _deduplicate_tasks removing, after its loop, the task the first group
\* keeps.
_deduplicate_tasks_drops_kept(db, ctr, reply) ==
    LET active_tasks == SelectSeq(list_tasks(db, None),
                                  LAMBDA t : t.status # "canceled")
    IN  IF Len(active_tasks) < 2
        THEN Outcome(db, ctr, [kind |-> "not_enough"], FALSE, <<>>, {})
        ELSE IF reply.kind # "map"
        THEN Outcome(db, ctr, [kind |-> "dedup_error", log |-> <<>>],
                     FALSE, <<>>, {})
        ELSE LET st == GroupLoop(LoopState(db, 0, <<>>, FALSE, <<>>), reply.groups)
                 left == IF reply.groups # <<>> /\ reply.groups[1].keep # <<>>
                         THEN delete_task(st.db, reply.groups[1].keep[1]).db
                         ELSE st.db
             IN  IF st.raised
                 THEN Outcome(st.db, ctr, [kind |-> "dedup_error", log |-> st.log],
                              FALSE, <<>>, {})
                 ELSE IF st.count > 0
                 THEN Outcome(left, ctr,
                              [kind |-> "removed", count |-> st.count,
                               report |-> st.report, log |-> st.log],
                              FALSE, <<>>, {})
                 ELSE Outcome(st.db, ctr, [kind |-> "no_duplicates"],
                              FALSE, <<>>, {})

\* GoogleADKAgent._deduplicate_tasks
_deduplicate_tasks(db, ctr, reply) ==
    LET active_tasks == SelectSeq(list_tasks(db, None),
                                  LAMBDA t : t.status # "canceled")
    IN  IF Len(active_tasks) < 2
        THEN Outcome(db, ctr, [kind |-> "not_enough"], FALSE, <<>>, {})
        ELSE IF reply.kind # "map"
        THEN Outcome(db, ctr, [kind |-> "dedup_error", log |-> <<>>],
                     FALSE, <<>>, {})
        ELSE LET st == GroupLoop(LoopState(db, 0, <<>>, FALSE, <<>>), reply.groups)
             IN  IF st.raised
                 THEN Outcome(st.db, ctr, [kind |-> "dedup_error", log |-> st.log],
                              FALSE, <<>>, {})
                 ELSE IF st.count > 0
                 THEN Outcome(st.db, ctr,
                              [kind |-> "removed", count |-> st.count,
                               report |-> st.report, log |-> st.log],
                              FALSE, <<>>, {})
                 ELSE Outcome(st.db, ctr, [kind |-> "no_duplicates"],
                              FALSE, <<>>, {})

\* The body of _execute_action's try block. params.get raises
\* AttributeError when the extracted JSON is not an object.
ExecuteBranches(db, ctr, t, action, params, dedup_reply) ==
    IF action \in {"create", "list", "update", "delete"} /\ ~params.isdict
    THEN Raise(db, ctr)
    ELSE CASE action = "create" -> ExecuteCreate(db, ctr, t, params.fields)
           [] action = "list" -> ExecuteList(db, ctr, params.fields)
           [] action = "update" -> ExecuteUpdate(db, ctr, t, params.fields)
           [] action = "delete" -> ExecuteDelete(db, ctr, params.fields)
           [] action = "statistics" ->
                  Outcome(db, ctr,
                          [kind |-> "statistics", stats |-> get_statistics(db)],
                          FALSE, <<>>, {})
           [] action = "deduplicate" -> _deduplicate_tasks(db, ctr, dedup_reply)
           [] OTHER -> Outcome(db, ctr, [kind |-> "help"], FALSE, <<>>, {})

\* GoogleADKAgent._execute_action: "except Exception" turns an exception
\* of the branches into the error text.
_execute_action(db, ctr, t, action, params, dedup_reply) ==
    LET r == ExecuteBranches(db, ctr, t, action, params, dedup_reply)
    IN  IF r.raised
        THEN Outcome(r.db, r.ctr, [kind |-> "exec_error"], FALSE,
                     r.created, r.completed)
        ELSE r

----------------------------------------------------------------------------
(* agents/google_adk_agent.py: process_request.                            *)

\* observability.langfuse_config (create_trace, end_span, log_agent_event):
\* best effort, its calls never raise into the caller.
ObservabilityRaises == FALSE

\* What process_request yields: the store and counter, the action, the
\* extracted fields, the executor's result text, the response returned
\* (a record naming the kind of text and the text it is built from) and
\* whether an exception leaves process_request.
Reply(ex, action, params, raised, response) ==
    [db |-> ex.db, ctr |-> ex.ctr, created |-> ex.created,
     completed |-> ex.completed, action |-> action, params |-> params,
     result |-> ex.text, raised |-> raised, response |-> response]

\* The try block of process_request: parse, extract, execute, then the
\* response-polishing generate_content call, whose failure raises.
ProcessSteps(db, ctr, t, user_request, extract_reply, dedup_reply, polish_reply) ==
    LET action == _parse_user_request(user_request)
        params == IF action \in {"create", "update", "delete"}
                  THEN _extract_task_info(extract_reply)
                  ELSE [isdict |-> TRUE, fields |-> NoParams]
        ex == _execute_action(db, ctr, t, action, params, dedup_reply)
    IN  IF ex.raised \/ polish_reply.kind = "raise"
        THEN Reply(ex, action, params, TRUE, [kind |-> "none", of |-> ex.text])
        ELSE Reply(ex, action, params, FALSE,
                   [kind |-> "polished", of |-> ex.text])

\* process_request without its except clause.
process_request_uncaught(db, ctr, t, user_request, extract_reply, dedup_reply, polish_reply) ==
    ProcessSteps(db, ctr, t, user_request, extract_reply, dedup_reply, polish_reply)

\* GoogleADKAgent.process_request: "except Exception" returns
\* "I encountered an error: ..." for any exception of the try block.
\* create_trace is called before the try block, end_span and
\* log_agent_event inside the except clause: an exception of theirs would
\* leave process_request.
process_request(db, ctr, t, user_request, extract_reply, dedup_reply, polish_reply) ==
    LET r == ProcessSteps(db, ctr, t, user_request, extract_reply, dedup_reply,
                          polish_reply)
    IN  IF ObservabilityRaises
        THEN [r EXCEPT !.raised = TRUE]
        ELSE IF r.raised
        THEN [r EXCEPT !.raised = FALSE,
                       !.response = [kind |-> "error", of |-> [kind |-> "exception"]]]
        ELSE r

----------------------------------------------------------------------------
(* Inputs of the store's operations.                                       *)

CreateTitles == {"Buy milk"}
CreateDescriptions == {""}
CreatePriorities == {"medium", "HIGH", "Urgent"}
CreateDueDates == {None, DateStr[1]}

\* update_task calls: no optional field, one optional field, or one of a few
\* combinations of them (the agent passes status, priority and title together).
NoFields ==
    [title |-> None, description |-> None, priority |-> None,
     status |-> None, due_date |-> None]
UpdateArgs ==
    {NoFields}
    \cup {[NoFields EXCEPT !.title = v] : v \in {"", "Call Bob"}}
    \cup {[NoFields EXCEPT !.description = v] : v \in {"", "2 litres"}}
    \cup {[NoFields EXCEPT !.priority = v] : v \in {"", "Urgent"}}
    \cup {[NoFields EXCEPT !.status = v] : v \in {"", "Completed", "pending", "Done"}}
    \cup {[NoFields EXCEPT !.due_date = v] : v \in {"", DateStr[0]}}
    \cup {[NoFields EXCEPT !.status = "Completed", !.priority = "Urgent"],
          [NoFields EXCEPT !.status = "pending", !.title = ""],
          [NoFields EXCEPT !.title = "Call Bob", !.description = "",
                           !.due_date = DateStr[0]]}

ListFilters == {None, "", "pending", "completed", "done"}

\* Ids a caller may name: every id handed out so far and one never handed out.
Ids == 1 .. next_id

----------------------------------------------------------------------------
(* The store driven directly through its API.                              *)

Init ==
    /\ tasks_db = <<>>
    /\ next_id = 1
    /\ now = 0
    /\ ops = 0
    /\ last = [op |-> "none"]
    /\ issued = <<>>
    /\ completedIds = {}

Tick ==
    /\ now < MaxClock
    /\ now' = now + 1
    /\ UNCHANGED <<tasks_db, next_id, ops, last, issued, completedIds>>

CreateTask ==
    /\ ops < MaxOps
    /\ \E title \in CreateTitles, description \in CreateDescriptions,
          priority \in CreatePriorities, due_date \in CreateDueDates :
          LET r == create_task(tasks_db, next_id, now, title, description,
                               priority, due_date)
          IN  /\ tasks_db' = r.db
              /\ next_id' = r.ctr
              /\ issued' = IF r.raised THEN issued ELSE Append(issued, r.ret[1].id)
              /\ last' = [op |-> "create_task", raised |-> r.raised,
                          priority |-> priority, due_date |-> due_date,
                          result |-> r.ret]
    /\ ops' = ops + 1
    /\ UNCHANGED <<now, completedIds>>

UpdateTask ==
    /\ ops < MaxOps
    /\ \E task_id \in Ids, a \in UpdateArgs :
          LET r == update_task(tasks_db, now, task_id, a.title, a.description,
                               a.priority, a.status, a.due_date)
          IN  /\ tasks_db' = r.db
              /\ completedIds' =
                     IF r.ret # <<>> /\ Truthy(a.status)
                        /\ str_lower(a.status) = "completed"
                     THEN completedIds \cup {task_id} ELSE completedIds
              /\ last' = [op |-> "update_task", task_id |-> task_id,
                          title |-> a.title, description |-> a.description,
                          priority |-> a.priority, status |-> a.status,
                          due_date |-> a.due_date, result |-> r.ret]
    /\ ops' = ops + 1
    /\ UNCHANGED <<next_id, now, issued>>

DeleteTask ==
    /\ ops < MaxOps
    /\ \E task_id \in Ids :
          LET r == delete_task(tasks_db, task_id)
          IN  /\ tasks_db' = r.db
              /\ last' = [op |-> "delete_task", task_id |-> task_id,
                          result |-> r.ret]
    /\ ops' = ops + 1
    /\ UNCHANGED <<next_id, now, issued, completedIds>>

ListTasks ==
    /\ \E status \in ListFilters :
          last' = [op |-> "list_tasks", status |-> status,
                   result |-> list_tasks(tasks_db, status)]
    /\ UNCHANGED <<tasks_db, next_id, now, ops, issued, completedIds>>

GetTask ==
    /\ \E task_id \in Ids :
          last' = [op |-> "get_task", task_id |-> task_id,
                   result |-> get_task(tasks_db, task_id)]
    /\ UNCHANGED <<tasks_db, next_id, now, ops, issued, completedIds>>

GetStatistics ==
    /\ last' = [op |-> "get_statistics", result |-> get_statistics(tasks_db)]
    /\ UNCHANGED <<tasks_db, next_id, now, ops, issued, completedIds>>

Next ==
    \/ Tick
    \/ CreateTask
    \/ UpdateTask
    \/ DeleteTask
    \/ ListTasks
    \/ GetTask
    \/ GetStatistics

Spec == Init /\ [][Next]_vars

----------------------------------------------------------------------------
(* Properties of the store.                                                *)

Stored(id) == \E i \in 1 .. Len(tasks_db) : tasks_db[i].id = id
RemoveAt(s, k) == [i \in 1 .. Len(s) - 1 |-> IF i < k THEN s[i] ELSE s[i + 1]]
StoreCall(op) == ops' = ops + 1 /\ last'.op = op

\* C1: every id create_task returns is strictly greater than all ids it
\* returned before (deleted tasks included), every stored task carries an
\* id that create_task returned, and no two stored tasks share an id.
C1_IdsNeverReused ==
    /\ \A i, j \in 1 .. Len(issued) : i < j => issued[i] < issued[j]
    /\ \A i, j \in 1 .. Len(tasks_db) : i # j => tasks_db[i].id # tasks_db[j].id
    /\ \A i \in 1 .. Len(tasks_db) :
           \E k \in 1 .. Len(issued) : issued[k] = tasks_db[i].id
    /\ (last.op = "create_task" /\ ~last.raised) =>
           /\ last.result[1].id = issued[Len(issued)]
           /\ Stored(last.result[1].id)

\* A create that follows a delete: the store is shorter than the history.
C1_Witness ==
    /\ last.op = "create_task"
    /\ ~last.raised
    /\ Len(issued) >= 2
    /\ Len(tasks_db) < Len(issued)

\* C2: delete_task(id) with no stored task of that id returns False and
\* leaves the list as it was; with a stored task of that id it returns True
\* and the list afterwards is the list before with that one entry taken
\* out, all other entries and their order kept.
C2_DeleteFrame ==
    [][StoreCall("delete_task") =>
        IF ~Stored(last'.task_id)
        THEN last'.result = FALSE /\ tasks_db' = tasks_db
        ELSE /\ last'.result = TRUE
             /\ \E k \in 1 .. Len(tasks_db) :
                   /\ tasks_db[k].id = last'.task_id
                   /\ tasks_db' = RemoveAt(tasks_db, k)]_vars

\* A delete that removed a task other than the first and left one behind.
C2_Witness ==
    /\ last.op = "delete_task"
    /\ last.result = TRUE
    /\ Len(tasks_db) >= 1
    /\ tasks_db[1].id < last.task_id

\* C3: update_task(id, ...) with no stored task of that id returns None and
\* leaves the list as it was; otherwise every other task is unchanged, the
\* task keeps its id and created_at, each of title, description, priority,
\* status and due_date passed as None or "" keeps its value, and
\* completed_at keeps its value unless a non-empty status was passed.
C3_UpdateFrame ==
    [][StoreCall("update_task") =>
        IF ~Stored(last'.task_id)
        THEN last'.result = <<>> /\ tasks_db' = tasks_db
        ELSE /\ Len(tasks_db') = Len(tasks_db)
             /\ \A i \in 1 .. Len(tasks_db) :
                   IF tasks_db[i].id # last'.task_id
                   THEN tasks_db'[i] = tasks_db[i]
                   ELSE /\ last'.result = <<tasks_db'[i]>>
                        /\ tasks_db'[i].id = tasks_db[i].id
                        /\ tasks_db'[i].created_at = tasks_db[i].created_at
                        /\ ~Truthy(last'.title) =>
                               tasks_db'[i].title = tasks_db[i].title
                        /\ ~Truthy(last'.description) =>
                               tasks_db'[i].description = tasks_db[i].description
                        /\ ~Truthy(last'.priority) =>
                               tasks_db'[i].priority = tasks_db[i].priority
                        /\ ~Truthy(last'.status) =>
                               /\ tasks_db'[i].status = tasks_db[i].status
                               /\ tasks_db'[i].completed_at = tasks_db[i].completed_at
                        /\ ~Truthy(last'.due_date) =>
                               tasks_db'[i].due_date = tasks_db[i].due_date]_vars

\* update_task(id, title="", status="pending") on a stored task.
C3_Witness ==
    /\ last.op = "update_task"
    /\ last.title = ""
    /\ last.status = "pending"
    /\ last.result # <<>>
    /\ last.result[1].title = "Buy milk"

\* C4: a stored task has completed_at present exactly when it was at some
\* time updated with status completed (so it starts absent and is never
\* cleared); an update with status completed leaves it present, and an
\* update with another status, or with none, leaves it exactly as it was.
C4_CompletedAtKept ==
    /\ [](\A i \in 1 .. Len(tasks_db) :
            (tasks_db[i].id \in completedIds) <=> (tasks_db[i].completed_at # NoTime))
    /\ [][StoreCall("update_task") =>
            \A i \in 1 .. Len(tasks_db) :
                tasks_db[i].id = last'.task_id =>
                    IF Truthy(last'.status) /\ str_lower(last'.status) = "completed"
                    THEN tasks_db'[i].completed_at # NoTime
                    ELSE tasks_db'[i].completed_at = tasks_db[i].completed_at]_vars

\* A task completed earlier and since updated to pending, completed_at kept.
C4_Witness ==
    /\ last.op = "update_task"
    /\ last.status = "pending"
    /\ last.result # <<>>
    /\ last.result[1].status = "pending"
    /\ last.result[1].completed_at # NoTime
    /\ last.result[1].completed_at < now
    /\ Stored(last.task_id)

\* C5: list_tasks(None) returns the whole list and list_tasks(f) returns the
\* stored tasks whose status equals f, in store order.
C5_ListExact ==
    last.op = "list_tasks" =>
        last.result = IF last.status = None
                      THEN tasks_db
                      ELSE SelectSeq(tasks_db, LAMBDA t : t.status = last.status)

\* C10: every stored task's priority is one of low, medium, high and its
\* status is one of pending, in_progress, completed, canceled.
C10_EnumeratedValues ==
    \A i \in 1 .. Len(tasks_db) :
        /\ tasks_db[i].priority \in {"low", "medium", "high"}
        /\ tasks_db[i].status \in {"pending", "in_progress", "completed", "canceled"}

\* The number of stored tasks whose field holds the value.
WithStatus(v) == Cardinality({i \in 1 .. Len(tasks_db) : tasks_db[i].status = v})
WithPriority(v) == Cardinality({i \in 1 .. Len(tasks_db) : tasks_db[i].priority = v})

\* C11: get_statistics returns total equal to the number of stored tasks,
\* pending, in_progress and completed equal to the number of stored tasks
\* of that status, high, medium and low equal to the number of stored tasks
\* of that priority; on an empty store every count is zero; and the call
\* leaves the store as it was.
C11_StatisticsExact ==
    /\ [](last.op = "get_statistics" =>
            /\ last.result.total = Len(tasks_db)
            /\ last.result.pending = WithStatus("pending")
            /\ last.result.in_progress = WithStatus("in_progress")
            /\ last.result.completed = WithStatus("completed")
            /\ last.result.high_priority = WithPriority("high")
            /\ last.result.medium_priority = WithPriority("medium")
            /\ last.result.low_priority = WithPriority("low")
            /\ tasks_db = <<>> =>
                   last.result = [total |-> 0, pending |-> 0, in_progress |-> 0,
                                  completed |-> 0, high_priority |-> 0,
                                  medium_priority |-> 0, low_priority |-> 0])
    /\ [][last'.op = "get_statistics" =>
            tasks_db' = tasks_db /\ next_id' = next_id]_vars

\* Statistics of a store of two tasks, one pending and one completed, one
\* of them of a priority that no count covers.
C11_Witness ==
    /\ last.op = "get_statistics"
    /\ last.result.total = 2
    /\ last.result.completed = 1
    /\ last.result.pending = 1
    /\ last.result.medium_priority = 1
    /\ \E i \in 1 .. Len(tasks_db) : tasks_db[i].priority = "urgent"

----------------------------------------------------------------------------
(* The agent processing requests.                                          *)

\* One request text per category of the classifier.
AgentRequests ==
    {Join(<<K_find, W_DUPLICATE>>), W_Add, K_list, K_mark, K_remove, K_stats,
     W_my}

\* Field sets the extraction call yields for a create request.
CreateFields ==
    {NoParams,
     [NoParams EXCEPT !.title = "BUY MILK", !.priority = "low",
                      !.due_date = DateStr[0]],
     [NoParams EXCEPT !.priority = "low", !.due_date = DateStr[1]],
     [NoParams EXCEPT !.title = "Buy milk", !.due_date = "next friday"],
     [NoParams EXCEPT !.title = None],
     [NoParams EXCEPT !.title = "Buy milk", !.priority = None],
     [NoParams EXCEPT !.title = "Call Bob", !.priority = "Urgent",
                      !.status = "Completed"]}

\* Field sets the extraction call yields for an update request.
UpdateFields ==
    {NoParams,
     [NoParams EXCEPT !.title = "buy milk", !.status = "Done"],
     [NoParams EXCEPT !.title = "Call Bob", !.priority = "low"],
     [NoParams EXCEPT !.task_id = 1, !.status = "Completed"],
     [NoParams EXCEPT !.task_id = 1, !.description = "2 litres",
                      !.due_date = DateStr[1]],
     [NoParams EXCEPT !.task_id = 2, !.priority = "HIGH", !.title = "Call Bob"],
     [NoParams EXCEPT !.task_id = 3]}

\* Field sets the extraction call yields for a delete request.
DeleteFields ==
    {NoParams,
     [NoParams EXCEPT !.title = "buy milk"],
     [NoParams EXCEPT !.task_id = 1],
     [NoParams EXCEPT !.task_id = 2, !.title = "Buy milk"],
     [NoParams EXCEPT !.task_id = 3]}

\* Replies of the extraction call: "raise" stands for every failure inside
\* the try block (the call, its .text, json.loads).
ExtractReplies(fields) ==
    {[kind |-> "raise"], [kind |-> "nondict"]}
    \cup {[kind |-> "dict", fields |-> f] : f \in fields}

\* Replies of the duplicate-grouping call: "raise" stands for every failure
\* before the loop (the call, its .text, json.loads, .items() of a value
\* that is no object).
Group(keep, remove) == [keep |-> keep, remove |-> remove]
DedupReplies ==
    {[kind |-> "raise"]}
    \cup {[kind |-> "map", groups |-> g] : g \in
            {<<>>,
             <<Group(<<1>>, <<<<2>>>>)>>,
             <<Group(<<2>>, <<<<1>>, <<3>>>>)>>,
             <<Group(<<1>>, <<<<1>>, <<2>>>>)>>,
             <<Group(<<1>>, <<<<2>>, <<2>>>>)>>,
             <<Group(<<1>>, <<<<2>>>>), Group(<<2>>, <<<<3>>>>)>>,
             <<Group(<<1>>, <<<<2>>, <<>>>>)>>,
             <<Group(<<>>, <<<<2>>>>)>>,
             <<Group(<<4>>, <<<<1>>>>)>>}}

\* Replies of the response-polishing call.
PolishReplies == {[kind |-> "text"], [kind |-> "raise"]}

\* The reply of a call that is not made.
NotCalled == [kind |-> "not_called"]

\* The language-model calls a request of that action makes.
ExtractRepliesFor(action) ==
    CASE action = "create" -> ExtractReplies(CreateFields)
      [] action = "update" -> ExtractReplies(UpdateFields)
      [] action = "delete" -> ExtractReplies(DeleteFields)
      [] OTHER -> {NotCalled}
DedupRepliesFor(action) ==
    IF action = "deduplicate" THEN DedupReplies ELSE {NotCalled}

\* The classifier's answer for each of the agent's requests.
ActionOf == [r \in AgentRequests |-> _parse_user_request(r)]

ProcessRequest ==
    /\ ops < MaxRequests
    /\ \E user_request \in AgentRequests :
          \E extract_reply \in ExtractRepliesFor(ActionOf[user_request]),
             dedup_reply \in DedupRepliesFor(ActionOf[user_request]),
             polish_reply \in PolishReplies :
             \E r \in {process_request(tasks_db, next_id, now, user_request,
                                       extract_reply, dedup_reply, polish_reply)} :
                 /\ tasks_db' = r.db
                 /\ next_id' = r.ctr
                 /\ issued' = issued \o r.created
                 /\ completedIds' = completedIds \cup r.completed
                 /\ last' = [op |-> "process_request", request |-> user_request,
                             action |-> r.action, params |-> r.params,
                             dedup_reply |-> dedup_reply,
                             polish_reply |-> polish_reply, time |-> now,
                             result |-> r.result, raised |-> r.raised,
                             response |-> r.response]
    /\ ops' = ops + 1
    /\ UNCHANGED now

NextAgent ==
    \/ Tick
    \/ ProcessRequest

SpecAgent == Init /\ [][NextAgent]_vars

\* C6: a create action whose extracted due_date is the date of the day the
\* request is processed stores the new task with priority high.
C6_DueTodayIsHigh ==
    (/\ last.op = "process_request"
     /\ last.action = "create"
     /\ last.result.kind = "created"
     /\ last.params.fields.due_date = DateStr[last.time \div TicksPerDay])
        => /\ last.result.task.priority = "high"
           /\ \E i \in 1 .. Len(tasks_db) :
                 /\ tasks_db[i].id = last.result.task.id
                 /\ tasks_db[i].priority = "high"

\* C8: process_request returns a response text and no exception leaves it,
\* whatever the request, the replies of the language-model calls and the
\* outcome of the store operations.
C8_AlwaysReturns ==
    last.op = "process_request" =>
        /\ ~last.raised
        /\ last.response.kind \in {"polished", "error"}

\* A request whose extraction failed, whose store operation raised or whose
\* duplicate grouping failed, and whose polishing call failed as well.
C8_Witness ==
    /\ last.op = "process_request"
    /\ last.polish_reply.kind = "raise"
    /\ last.result.kind \in {"exec_error", "dedup_error"}
    /\ last.response.kind = "error"

\* C9: when the response-polishing call fails, process_request returns the
\* executor's result text as it is.
C9_FallsBackToResult ==
    (last.op = "process_request" /\ last.polish_reply.kind = "raise") =>
        /\ last.response.kind # "error"
        /\ last.response.of = last.result

\* A step that is one call of process_request.
AgentCall == ops' = ops + 1 /\ last'.op = "process_request"

\* Whether a task of that id is in the store.
InStore(db, id) == \E i \in 1 .. Len(db) : db[i].id = id

\* C12: every deletion of a duplicate-removal run is made at a moment when
\* a task of the remove id and a task of the group's keep id are both in
\* the store, whatever duplicates map the model returned.
C12_DeletesOnlyWithBothStored ==
    (/\ last.op = "process_request"
     /\ last.action = "deduplicate"
     /\ last.result.kind \in {"removed", "dedup_error"})
        => \A k \in 1 .. Len(last.result.log) :
               /\ InStore(last.result.log[k].before, last.result.log[k].removed)
               /\ InStore(last.result.log[k].before, last.result.log[k].keep)

\* The ids listed in the remove lists of a duplicates map.
ListedForRemoval(groups) ==
    UNION {{groups[g].remove[k][1] :
               k \in {j \in 1 .. Len(groups[g].remove) : groups[g].remove[j] # <<>>}} :
           g \in 1 .. Len(groups)}

\* C13: after a duplicate-removal run that reports a removed count, every
\* task that was stored and is in no remove list of the model's response is
\* still stored, unchanged, and the reported count is the number of tasks
\* the run took out of the store.
C13_RemovedCountAndFrame ==
    [][(AgentCall /\ last'.result.kind = "removed") =>
        /\ \A i \in 1 .. Len(tasks_db) :
               tasks_db[i].id \notin ListedForRemoval(last'.dedup_reply.groups)
                   => \E j \in 1 .. Len(tasks_db') : tasks_db'[j] = tasks_db[i]
        /\ \A j \in 1 .. Len(tasks_db') :
               \E i \in 1 .. Len(tasks_db) : tasks_db[i] = tasks_db'[j]
        /\ last'.result.count = Len(tasks_db) - Len(tasks_db')
        /\ last'.result.count = Len(last'.result.report)]_vars

\* A run over "Buy milk" twice whose map lists the second task twice: one
\* removal reported, the first task still stored.
C13_Witness ==
    /\ last.op = "process_request"
    /\ last.result.kind = "removed"
    /\ last.dedup_reply.groups = <<Group(<<1>>, <<<<2>>, <<2>>>>)>>
    /\ last.result.count = 1
    /\ Len(tasks_db) = 1
    /\ tasks_db[1].id = 1

\* C18: a duplicate-removal run that ends by reporting an error has deleted
\* no task.
C18_ErrorLeavesStore ==
    (/\ last.op = "process_request"
     /\ last.action = "deduplicate"
     /\ last.result.kind = "dedup_error")
        => last.result.log = <<>>

\* The elements of a sequence.
Range(s) == {s[i] : i \in 1 .. Len(s)}

\* C14: a create action that added a task to the store has, within the same
\* request, notified the note-database collaborator and, when the task has
\* a due date, the calendar collaborator, and the created task is in the
\* store.
C14_CreateNotifies ==
    (/\ last.op = "process_request"
     /\ last.action = "create"
     /\ last.result.kind = "created")
        => /\ InStore(tasks_db, last.result.task.id)
           /\ "note_database" \in Range(last.result.notified)
           /\ Truthy(last.result.task.due_date) =>
                  "calendar" \in Range(last.result.notified)

\* Whether the field set holds a value for the field: the key is there and
\* its value is neither null nor empty.
Given(value) == value # Missing /\ Truthy(value)

\* The index of the task the claim names as the target: the task of that
\* id when task_id is given, else the first task whose title equals the
\* given title ignoring case; the empty set when there is none.
TargetOf(db, f) ==
    IF f.task_id # 0
    THEN {i \in 1 .. Len(db) : db[i].id = f.task_id}
    ELSE IF Given(f.title)
    THEN LET same == {i \in 1 .. Len(db) :
                         /\ db[i].title # None
                         /\ str_lower(db[i].title) = str_lower(f.title)}
         IN  {i \in same : \A j \in same : i <= j}
    ELSE {}

\* C15: an update or delete action resolves the task of the extracted
\* task_id, else the first stored task of the extracted title ignoring
\* case; with no task resolved it returns "not found" and the store is as
\* it was; a resolved delete removes exactly the resolved task, a resolved
\* update reports that task.
C15_TargetResolution ==
    [][(/\ AgentCall
        /\ last'.action \in {"update", "delete"}
        /\ last'.params.isdict) =>
        LET target == TargetOf(tasks_db, last'.params.fields)
        IN  IF target = {}
            THEN last'.result.kind = "not_found" /\ tasks_db' = tasks_db
            ELSE \A k \in target :
                    IF last'.action = "delete"
                    THEN /\ last'.result.kind = "deleted"
                         /\ last'.result.id = tasks_db[k].id
                         /\ tasks_db' = RemoveAt(tasks_db, k)
                    ELSE /\ last'.result.kind = "updated"
                         /\ last'.result.task.id = tasks_db[k].id
                         /\ Len(tasks_db') = Len(tasks_db)
                         /\ \A i \in 1 .. Len(tasks_db) :
                                i # k => tasks_db'[i] = tasks_db[i]]_vars

\* C16: an update action that resolved a task has written every field the
\* extracted field set holds among title, description, priority, status
\* and due_date (priority and status in lower case) to that task, and the
\* fields it does not hold keep their values.
C16_UpdateWritesGivenFields ==
    [][(/\ AgentCall
        /\ last'.action = "update"
        /\ last'.result.kind = "updated") =>
        \A i \in 1 .. Len(tasks_db) :
            tasks_db[i].id = last'.result.task.id =>
                LET f == last'.params.fields
                    old == tasks_db[i]
                    new == tasks_db'[i]
                IN  /\ new.title = IF Given(f.title) THEN f.title ELSE old.title
                    /\ new.description =
                           IF Given(f.description) THEN f.description
                           ELSE old.description
                    /\ new.priority =
                           IF Given(f.priority) THEN str_lower(f.priority)
                           ELSE old.priority
                    /\ new.status =
                           IF Given(f.status) THEN str_lower(f.status)
                           ELSE old.status
                    /\ new.due_date =
                           IF Given(f.due_date) THEN f.due_date
                           ELSE old.due_date]_vars

\* C17: a create action adds exactly one task, whatever the extraction
\* yielded, and returns the "created" result: the task's title is
\* "Untitled Task" when no title was extracted, its priority medium when no
\* priority was extracted and the escalation does not apply, its status
\* pending and its completed_at absent.
C17_CreateAlwaysAdds ==
    [][(AgentCall /\ last'.action = "create") =>
        /\ last'.result.kind = "created"
        /\ Len(tasks_db') = Len(tasks_db) + 1
        /\ SubSeq(tasks_db', 1, Len(tasks_db)) = tasks_db
        /\ LET f == last'.params.fields
               task == tasks_db'[Len(tasks_db')]
           IN  /\ task = last'.result.task
               /\ ~Given(f.title) => task.title = "Untitled Task"
               /\ (/\ ~Given(f.priority)
                   /\ EscalatedPriority("medium", Get(f.due_date, None),
                                         last'.time) = "medium")
                      => task.priority = "medium"
               /\ task.status = "pending"
               /\ task.completed_at = NoTime]_vars

----------------------------------------------------------------------------
(* The intent classifier applied to a request text.                        *)

InitClassify ==
    /\ tasks_db = <<>>
    /\ next_id = 1
    /\ now = 0
    /\ ops = 0
    /\ issued = <<>>
    /\ completedIds = {}
    /\ \E r \in Requests : last = [op |-> "request", request |-> r]

Classify ==
    /\ last.op = "request"
    /\ last' = [op |-> "_parse_user_request", request |-> last.request,
                action |-> _parse_user_request(last.request)]
    /\ UNCHANGED <<tasks_db, next_id, now, ops, issued, completedIds>>

NextClassify == Classify

SpecClassify == InitClassify /\ [][NextClassify]_vars

\* The classifier's rules, in order: <<category, whether the rule matches>>.
IntentRules(text) ==
    <<<<"deduplicate", /\ Contains(text, K_duplicate)
                       /\ \E w \in {K_remove, K_delete, K_clean, K_check, K_find} :
                              Contains(text, w)>>,
      <<"create", \E w \in {K_create, K_add, K_new_task} : Contains(text, w)>>,
      <<"list", \E w \in {K_list, K_show, K_get_tasks, K_tasks} : Contains(text, w)>>,
      <<"update", \E w \in {K_update, K_change, K_modify, K_mark} : Contains(text, w)>>,
      <<"delete", \E w \in {K_delete, K_remove} : Contains(text, w)>>,
      <<"statistics", \E w \in {K_statistics, K_stats, K_summary, K_overview} :
                         Contains(text, w)>>,
      <<"general", TRUE>>>>

\* C7: the classifier returns the category of the first rule, in the order
\* duplicate-removal, create, list, update, delete, statistics, general,
\* that matches the lower-cased request; so a request containing
\* "duplicate" and one of remove/delete/clean/check/find is classified as
\* duplicate-removal.
C7_FirstMatchingRule ==
    last.op = "_parse_user_request" =>
        LET rules == IntentRules(text_lower(last.request))
            first == CHOOSE i \in 1 .. 7 :
                         rules[i][2] /\ \A j \in 1 .. i - 1 : ~rules[j][2]
        IN  /\ last.action = rules[first][1]
            /\ rules[1][2] => last.action = "deduplicate"

\* "Remove DUPLICATE" classified: it matches the delete rule as well.
C7_Witness ==
    /\ last.op = "_parse_user_request"
    /\ last.request = Join(<<W_Remove, W_DUPLICATE>>)
    /\ last.action = "deduplicate"

====
